---------------------------- MODULE Spec2Model ----------------------------
(***************************************************************************)
(* Model of gorfb (RFB 3.8 server): StartServer up to the first accepted   *)
(* connection (StartSpec), one accepted connection from the start of       *)
(* RFBConn.process to the close of its stream (Spec, LiveSpec), its        *)
(* request loop alone (LoopSpec), and the emission calls of the            *)
(* application on it (SendSpec), and SetUintN / GetUintN (CodecSpec).      *)
(* Bytes are the integers 0..255, Go slices                                *)
(* are sequences (index i of the source is index i+1 here), and every      *)
(* Conn.Read / Conn.Write is one step.                                     *)
(***************************************************************************)
EXTENDS Integers, Sequences, FiniteSets, TLC

(***************************************************************************)
(* Bounds of the model.                                                    *)
(***************************************************************************)
\* number of request messages the client sends after the handshake
MaxMsgs == 1
\* number of reads of one connection that return fewer bytes than are asked
\* for although the client has sent them (the transport delivered the
\* client's bytes in pieces)
MaxShortReads == 1
\* the client sends a request while fewer than this many bytes it has sent
\* are unread by the server
Window == 12

\* number of request messages the client sends in a run that begins at the
\* request loop
MaxLoopMsgs == 2
\* number of calls of SendRectangles and SendCutText in a run
MaxCalls == 2
\* number of times Accept fails in a run of StartServer
MaxAcceptErrs == 1

(***************************************************************************)
(* Program constants.                                                      *)
(***************************************************************************)
\* "RFB 003.008\n"
PROTOCOL == <<82, 70, 66, 32, 48, 48, 51, 46, 48, 48, 56, 10>>
\* "Authentication Failure"
AUTH_FAIL == <<65, 117, 116, 104, 101, 110, 116, 105, 99, 97, 116, 105, 111, 110,
               32, 70, 97, 105, 108, 117, 114, 101>>
\* make([]byte, 100) in performInit and processClientRequest
ScratchLen == 100
\* crypto/des block size
DesBlock == 8

(***************************************************************************)
(* Slices.                                                                 *)
(***************************************************************************)
Min(a, b) == IF a < b THEN a ELSE b

Zeros(n) == [i \in 1..n |-> 0]

\* b[lo:hi]
Slice(b, lo, hi) == SubSeq(b, lo + 1, hi)

\* copy(dst[off:], src): copies min(len(dst)-off, len(src)) bytes
Copy(dst, off, src) ==
  LET d == dst
      n == Min(Len(d) - off, Len(src))
  IN  IF n <= 0 THEN d
      ELSE SubSeq(d, 1, off) \o SubSeq(src, 1, n) \o SubSeq(d, off + n + 1, Len(d))

(***************************************************************************)
(* support.go: big-endian integers in a byte buffer.  A uint16 is an       *)
(* integer below 65536.  A uint32 is a record of two 16-bit halves,        *)
(* [hi, lo], of value hi * 65536 + lo; an int made from one keeps the      *)
(* representation, with a negative hi for a negative value.                *)
(***************************************************************************)
\* uint32(n) of a non-negative int n
U32(n) == [hi |-> (n \div 65536) % 65536, lo |-> n % 65536]

\* the bytes of a 16-bit value taken in the other order
Byte16LittleEndian(val, i) == IF i = 0 THEN (val \div 256) % 256 ELSE val % 256

\* byte(val) after i times val >>= 8
Byte16(val, i) == IF i = 0 THEN val % 256 ELSE (val \div 256) % 256

Byte32(val, i) == IF i < 2 THEN Byte16(val.lo, i) ELSE Byte16(val.hi, i - 2)

\* buf[1-i+pos] = byte(val) for i = 0, 1
SetUint16(buf, pos, val) ==
  IF pos + 2 > Len(buf) THEN buf
  ELSE [buf EXCEPT ![pos + 2] = Byte16(val % 65536, 0),
                    ![pos + 1] = Byte16(val % 65536, 1)]

\* buf[3-i+pos] = byte(val) for i = 0..3
SetUint32(buf, pos, val) ==
  IF pos + 4 > Len(buf) THEN buf
  ELSE [buf EXCEPT ![pos + 4] = Byte32(val, 0), ![pos + 3] = Byte32(val, 1),
                    ![pos + 2] = Byte32(val, 2), ![pos + 1] = Byte32(val, 3)]

\* val = (val << 8) + uint16(buf[pos+i]) for i = 0 .. n-1
RECURSIVE Shift16(_, _, _)
Shift16(buf, pos, n) ==
  IF n = 0 THEN 0
  ELSE ((Shift16(buf, pos, n - 1) * 256) + buf[pos + n]) % 65536

\* val = (val << 8) + uint32(buf[pos+i]) for i = 0 .. n-1
RECURSIVE Shift32(_, _, _)
Shift32(buf, pos, n) ==
  IF n = 0 THEN U32(0)
  ELSE LET val == Shift32(buf, pos, n - 1)
       IN  [hi |-> ((val.hi % 256) * 256) + (val.lo \div 256),
            lo |-> ((val.lo % 256) * 256) + buf[pos + n]]

GetUint16(buf, pos) == IF pos + 2 > Len(buf) THEN 0 ELSE Shift16(buf, pos, 2)

GetUint32(buf, pos) == IF pos + 4 > Len(buf) THEN U32(0) ELSE Shift32(buf, pos, 4)

\* A uint64 is [hi, lo] of two uint32.
\* uint64(0)
Zero64 == [hi |-> U32(0), lo |-> U32(0)]

Byte64(val, i) == IF i < 4 THEN Byte32(val.lo, i) ELSE Byte32(val.hi, i - 4)

\* buf[7-i+pos] = byte(val) for i = 0..7
SetUint64(buf, pos, val) ==
  IF pos + 8 > Len(buf) THEN buf
  ELSE [buf EXCEPT ![pos + 8] = Byte64(val, 0), ![pos + 7] = Byte64(val, 1),
                    ![pos + 6] = Byte64(val, 2), ![pos + 5] = Byte64(val, 3),
                    ![pos + 4] = Byte64(val, 4), ![pos + 3] = Byte64(val, 5),
                    ![pos + 2] = Byte64(val, 6), ![pos + 1] = Byte64(val, 7)]

\* val = (val << 8) + uint64(buf[pos+i]) for i = 0 .. n-1
RECURSIVE Shift64(_, _, _)
Shift64(buf, pos, n) ==
  IF n = 0 THEN Zero64
  ELSE LET val == Shift64(buf, pos, n - 1)
       IN  [hi |-> [hi |-> ((val.hi.hi % 256) * 256) + (val.hi.lo \div 256),
                    lo |-> ((val.hi.lo % 256) * 256) + (val.lo.hi \div 256)],
            lo |-> [hi |-> ((val.lo.hi % 256) * 256) + (val.lo.lo \div 256),
                    lo |-> ((val.lo.lo % 256) * 256) + buf[pos + n]]]

GetUint64(buf, pos) == IF pos + 8 > Len(buf) THEN Zero64 ELSE Shift64(buf, pos, 8)

\* SetUintN and GetUintN for N = n
SetUint(n, buf, pos, val) ==
  CASE n = 16 -> SetUint16(buf, pos, val)
    [] n = 32 -> SetUint32(buf, pos, val)
    [] n = 64 -> SetUint64(buf, pos, val)

GetUint(n, buf, pos) ==
  CASE n = 16 -> GetUint16(buf, pos)
    [] n = 32 -> GetUint32(buf, pos)
    [] n = 64 -> GetUint64(buf, pos)

\* the 16-bit, 32-bit and 64-bit values the functions are called with
Words == {0, 1, 255, 256, 4660, 32768, 65535}

Values(n) ==
  CASE n = 16 -> Words
    [] n = 32 -> [hi : {0, 258, 32768, 65535}, lo : {0, 772, 65535}]
    [] n = 64 -> [hi : [hi : {0, 258, 65535}, lo : {772}],
                  lo : [hi : {1286, 65535}, lo : {0, 1800}]]

\* the buffers they are called with: of 1, 2, 4, 8 and 12 bytes, none of
\* them zero
Buffers == {[i \in 1..len |-> 160 + i] : len \in {1, 2, 4, 8, 12}}

\* the positions
Positions == {0, 1, 4, 5}

\* the calls made: SetUintN(buf, pos, val) and then GetUintN(buf, pos)
CodecCalls ==
  UNION {[pc : {"set"}, n : {n}, buf : Buffers, pos : Positions, val : Values(n),
          before : {<<>>}, got : {0}] : n \in {16, 32, 64}}

\* no call of them is made
NoCodec ==
  [pc |-> "idle", n |-> 16, buf |-> <<>>, pos |-> 0, val |-> 0, before |-> <<>>,
   got |-> 0]

(***************************************************************************)
(* VNC authentication.                                                     *)
(***************************************************************************)
RECURSIVE MirrorBits(_, _, _)
MirrorBits(val, newval, i) ==
  IF i = 0 THEN newval
  ELSE MirrorBits(val \div 2, ((newval * 2) % 256) + (val % 2), i - 1)

fixDesKeyByte(val) == MirrorBits(val, 0, 8)

fixDesKey(key) ==
  LET buf == Copy(Zeros(8), 0, IF Len(key) <= 8 THEN key ELSE SubSeq(key, 1, 8))
  IN  [i \in 1..8 |-> fixDesKeyByte(buf[i])]

\* crypto/des is not part of the repository.  The block cipher is modelled as
\* a keyed permutation of 8-byte blocks (for each key a bijection, different
\* keys give different bijections, no block is left in place): the bytes are
\* reversed and the key bytes added.  It reads the first 8 bytes of src only.
DesEncrypt(key, src) ==
  [i \in 1..DesBlock |-> (src[DesBlock + 1 - i] + key[i] + i) % 256]

(***************************************************************************)
(* Configurations (RFBServer) and what the client may send.                *)
(***************************************************************************)
\* 32 bits per pixel, depth 24, true colour, maxima 255, shifts 16, 8, 0
PixelFormats ==
  {[BitsPerPixel |-> 32, Depth |-> 24, BigEndian |-> 0, TrueColor |-> 1,
    RedMax |-> 255, GreenMax |-> 255, BlueMax |-> 255,
    RedShift |-> 16, GreenShift |-> 8, BlueShift |-> 0]}

\* "", "password", "pw"
AuthTexts == {<<>>, <<112, 97, 115, 115, 119, 111, 114, 100>>, <<112, 119>>}

\* "demo", and names of 76 and 77 bytes (24 + 76 = ScratchLen)
BufferNames ==
  {<<100, 101, 109, 111>>, [i \in 1..76 |-> 97 + (i % 26)], [i \in 1..77 |-> 97 + (i % 26)]}

Dimensions == {0, 640, 65536 + 640}

Candidates ==
  [Port : {"5900"}, Width : Dimensions, Height : {480}, PixelFormat : PixelFormats,
   BufferName : BufferNames, Handler : {"nil", "app"},
   Authenticate : BOOLEAN, AuthText : AuthTexts]

\* the checks of StartServer without the one of the shifts
StartServerAcceptsEqualShifts(rfb) ==
  /\ ~(rfb.Authenticate /\ Len(rfb.AuthText) = 0)
  /\ ~(rfb.Width <= 0 \/ rfb.Height <= 0)
  /\ rfb.Handler # "nil"
  /\ rfb.PixelFormat.BitsPerPixel \in {8, 16, 24, 32}
  /\ rfb.PixelFormat.TrueColor = 1 =>
        ~(rfb.PixelFormat.RedMax = 0 \/ rfb.PixelFormat.GreenMax = 0
           \/ rfb.PixelFormat.BlueMax = 0)

\* the checks of StartServer before it listens: TRUE when it goes on to listen
StartServerAccepts(rfb) ==
  /\ ~(rfb.Authenticate /\ Len(rfb.AuthText) = 0)
  /\ ~(rfb.Width <= 0 \/ rfb.Height <= 0)
  /\ rfb.Handler # "nil"
  /\ rfb.PixelFormat.BitsPerPixel \in {8, 16, 24, 32}
  /\ rfb.PixelFormat.TrueColor = 1 =>
        /\ ~(rfb.PixelFormat.RedMax = 0 \/ rfb.PixelFormat.GreenMax = 0
              \/ rfb.PixelFormat.BlueMax = 0)
        /\ ~(rfb.PixelFormat.RedShift = rfb.PixelFormat.GreenShift
              \/ rfb.PixelFormat.RedShift = rfb.PixelFormat.BlueShift
              \/ rfb.PixelFormat.GreenShift = rfb.PixelFormat.BlueShift)

\* 640 by 480, "demo", no authentication
BaseServer ==
  [Port |-> "5900", Width |-> 640, Height |-> 480,
   PixelFormat |-> CHOOSE pf \in PixelFormats : TRUE,
   BufferName |-> <<100, 101, 109, 111>>, Handler |-> "app",
   Authenticate |-> FALSE, AuthText |-> <<>>]

\* the configurations a connection can belong to: those StartServer accepts
\* that differ from the base one in the size, in the name or in the
\* authentication
Servers ==
  {rfb \in Candidates :
     /\ StartServerAccepts(rfb)
     /\ \/ rfb = [BaseServer EXCEPT !.Width = rfb.Width]
        \/ rfb = [BaseServer EXCEPT !.BufferName = rfb.BufferName]
        \/ rfb = [BaseServer EXCEPT !.Authenticate = TRUE, !.AuthText = rfb.AuthText]}

\* the configurations StartServer may be called with: every rule of its
\* validation is kept by some and broken by some
StartPixelFormats ==
  [BitsPerPixel : {8, 15, 32}, Depth : {24}, BigEndian : {0}, TrueColor : {0, 1, 2},
   RedMax : {0, 255}, GreenMax : {255}, BlueMax : {0, 255},
   RedShift : {16}, GreenShift : {8, 16}, BlueShift : {0, 8}]

StartCandidates ==
  [Port : {"", "5901"}, Width : {-640, 0, 640}, Height : {0, 480},
   PixelFormat : StartPixelFormats, BufferName : {<<100, 101, 109, 111>>},
   Handler : {"nil", "app"}, Authenticate : BOOLEAN,
   AuthText : {<<>>, <<112, 119>>}]

\* the outcomes of rand.Read(buf[:16])
Challenges ==
  {[i \in 1..16 |-> (37 * i + 11) % 256], [i \in 1..16 |-> (i * i * 5) % 256]}

\* int has 32 or 64 bits, as the platform of the build has it
IntSizes == {32, 64}

\* lengths at which a read may return early
ShortLens == {1}

(***************************************************************************)
(* State.                                                                  *)
(***************************************************************************)
VARIABLES
  server,   \* the RFBServer the connection belongs to
  intBits,  \* the size of int in the build
  pc,       \* where the connection's goroutine is
  buf,      \* the buf of the function that is running
  buf2,     \* buf2 of agreeSecurity (the response read)
  cnt,      \* cnt / sz of processClientRequest
  closes,   \* number of Conn.Close calls made
  cin,      \* bytes the client has sent and the server has not read yet
  cphase,   \* what the client sends next
  cclosed,  \* the client has closed its side of the stream
  nsent,    \* number of request messages the client has sent
  cresp,    \* history: the response the client sent
  reqs,     \* history: the request messages the client sent, in order
  msgs,     \* number of request messages the client of this run sends
  start,    \* where StartServer is, and what it returned
  senders,  \* the emission call each task of the application is in
  wire,     \* history: the writes of the emission calls, in order
  sends,    \* history: the emission calls in the order made, and what each returned
  codec,    \* a SetUintN call and the GetUintN call that follows it
  shorts,   \* history: number of reads that returned early
  io,       \* history: the reads and writes of the handshake, in order
  calls,    \* history: the handler calls, in order
  cur,      \* history: the current iteration of the request loop
  iters     \* history: the finished iterations of the request loop

vars ==
  <<server, intBits, pc, buf, buf2, cnt, closes, cin, cphase, cclosed, nsent, cresp,
    shorts, io, calls, cur, iters, reqs, msgs, start, senders, wire, sends, codec>>

sendVars == <<senders, wire, sends>>

srvVars == <<pc, buf, buf2, cnt, closes, shorts, io, calls, cur, iters>>

cliVars == <<cphase, cclosed, nsent, cresp, reqs>>

\* StartServer of the connection's server: it listens and is in its accept
\* loop
Accepting ==
  [pc |-> "accept", err |-> "nil", listened |-> TRUE, port |-> "5900", errs |-> 0]

\* the tasks of the application that may call the emission functions
Tasks == {1, 2}

\* a task that is in no emission call
NoCall == [pc |-> "idle", id |-> 0, rects |-> <<>>, text |-> <<>>, i |-> 0]

NoIter == [msg |-> <<>>, full |-> TRUE, first |-> 0]

Init ==
  /\ server \in Servers
  /\ intBits \in IntSizes
  /\ pc = "agreeProtocol"
  /\ buf = <<>>
  /\ buf2 = <<>>
  /\ cnt = 0
  /\ closes = 0
  /\ cin = <<>>
  /\ cphase = "version"
  /\ cclosed = FALSE
  /\ nsent = 0
  /\ cresp = <<>>
  /\ shorts = 0
  /\ io = <<>>
  /\ calls = <<>>
  /\ cur = NoIter
  /\ iters = <<>>
  /\ reqs = <<>>
  /\ msgs = MaxMsgs
  /\ start = Accepting
  /\ senders = [t \in Tasks |-> NoCall]
  /\ wire = <<>>
  /\ sends = <<>>
  /\ codec = NoCodec

(***************************************************************************)
(* Conn.Read and Conn.Write.                                               *)
(***************************************************************************)
\* Read(p) with len(p) = want fails when the client has closed and nothing
\* is left to read
ReadFails(want) == want > 0 /\ cin = <<>> /\ cclosed

\* the numbers of bytes Read(p) with len(p) = want may return without error:
\* what is there, up to want, or fewer when the bytes arrive in pieces
ReadLens(want) ==
  IF want = 0 THEN {0}
  ELSE {n \in 1..Min(want, Len(cin)) :
          \/ n = Min(want, Len(cin))
          \/ n \in ShortLens /\ shorts < MaxShortReads}

\* p after Read(p) returned n
ReadInto(p, n) == Copy(p, 0, SubSeq(cin, 1, n))

\* the stream and the count of early sends after a read of n bytes
Consume(want, n) ==
  /\ cin' = SubSeq(cin, n + 1, Len(cin))
  /\ shorts' = IF n < Min(want, Len(cin)) THEN shorts + 1 ELSE shorts

ReadEvent(want, n, ok) ==
  [op |-> "read", want |-> want, data |-> SubSeq(cin, 1, n), ok |-> ok]

WriteEvent(data, ok) ==
  [op |-> "write", want |-> Len(data), data |-> data, ok |-> ok]

(***************************************************************************)
(* RFBServer.StartServer: the default port, the checks, Listen, and the    *)
(* accept loop that starts process() for a connection.                     *)
(***************************************************************************)
\* the state of everything but StartServer while no connection is accepted
NoConnection ==
  /\ intBits \in IntSizes
  /\ pc = "none"
  /\ buf = <<>> /\ buf2 = <<>> /\ cnt = 0 /\ closes = 0
  /\ cin = <<>> /\ cphase = "version" /\ cclosed = FALSE /\ nsent = 0
  /\ cresp = <<>> /\ shorts = 0 /\ io = <<>> /\ calls = <<>>
  /\ cur = NoIter /\ iters = <<>> /\ reqs = <<>> /\ msgs = MaxMsgs
  /\ senders = [t \in Tasks |-> NoCall] /\ wire = <<>> /\ sends = <<>>

\* StartServer is called with a configuration
InitStart ==
  /\ server \in StartCandidates
  /\ start = [pc |-> "validate", err |-> "nil", listened |-> FALSE,
              port |-> server.Port, errs |-> 0]
  /\ NoConnection
  /\ codec = NoCodec

connVars ==
  <<intBits, pc, buf, buf2, cnt, closes, cin, cphase, cclosed, nsent, cresp, shorts,
    io, calls, cur, iters, reqs, msgs>>

\* rfb.Port after the first statement
DefaultPort(port) == IF port = "" THEN "5900" ELSE port

StartServerValidate ==
  /\ start.pc = "validate"
  /\ server' = [server EXCEPT !.Port = DefaultPort(@)]
  /\ start' = IF StartServerAccepts(server)
              THEN [start EXCEPT !.pc = "listen"]
              ELSE [start EXCEPT !.pc = "returned", !.err = "configuration"]
  /\ UNCHANGED <<connVars, sendVars, codec>>

\* net.Listen succeeds or fails
StartServerListen ==
  /\ start.pc = "listen"
  /\ \E ok \in BOOLEAN :
       start' = IF ok
                THEN [start EXCEPT !.pc = "accept", !.listened = TRUE]
                ELSE [start EXCEPT !.pc = "returned", !.listened = TRUE,
                                   !.err = "listen"]
  /\ UNCHANGED <<server, connVars, sendVars, codec>>

\* ln.Accept fails, which is logged, or gives a connection, for which
\* process() is started
StartServerAccept ==
  /\ start.pc = "accept"
  /\ pc = "none"
  /\ \/ /\ start.errs < MaxAcceptErrs
        /\ start' = [start EXCEPT !.errs = @ + 1]
        /\ pc' = pc
     \/ /\ pc' = "agreeProtocol"
        /\ start' = start
  /\ UNCHANGED <<server, intBits, buf, buf2, cnt, closes, cin, cphase, cclosed, nsent,
                 cresp, shorts, io, calls, cur, iters, reqs, msgs, sendVars, codec>>

\* SetUintN and GetUintN called for themselves while the server waits for a
\* connection
InitCodec ==
  /\ server = BaseServer
  /\ start = Accepting
  /\ NoConnection
  /\ codec \in CodecCalls

SetUintCall ==
  /\ codec.pc = "set"
  /\ codec' = [codec EXCEPT !.pc = "get", !.before = codec.buf,
                            !.buf = SetUint(codec.n, codec.buf, codec.pos, codec.val)]
  /\ UNCHANGED <<server, connVars, start, sendVars>>

GetUintCall ==
  /\ codec.pc = "get"
  /\ codec' = [codec EXCEPT !.pc = "done",
                            !.got = GetUint(codec.n, codec.buf, codec.pos)]
  /\ UNCHANGED <<server, connVars, start, sendVars>>

NextCodec == SetUintCall \/ GetUintCall

CodecSpec == InitCodec /\ [][NextCodec]_vars

NextStart == StartServerValidate \/ StartServerListen \/ StartServerAccept

StartSpec == InitStart /\ [][NextStart]_vars

(***************************************************************************)
(* RFBConn.process: agreeProtocol() && agreeSecurity() && performInit(),   *)
(* then Handler.Init and processClientRequest, then Conn.Close.            *)
(***************************************************************************)
\* process goes on although agreeSecurity returned false
AfterReturnIgnoresSecurity(fn, ok) ==
  IF ~ok /\ fn # "agreeSecurity" THEN "close"
  ELSE CASE fn = "agreeProtocol" -> "agreeSecurity"
         [] fn = "agreeSecurity" -> "performInit"
         [] fn = "performInit" -> "handlerInit"

\* process goes on to Handler.Init although performInit returned false
AfterReturnIgnoresInit(fn, ok) ==
  IF ~ok /\ fn # "performInit" THEN "close"
  ELSE CASE fn = "agreeProtocol" -> "agreeSecurity"
         [] fn = "agreeSecurity" -> "performInit"
         [] fn = "performInit" -> "handlerInit"

\* where process goes when fn has returned ok
AfterReturn(fn, ok) ==
  IF ~ok THEN "close"
  ELSE CASE fn = "agreeProtocol" -> "agreeSecurity"
         [] fn = "agreeSecurity" -> "performInit"
         [] fn = "performInit" -> "handlerInit"

\* the bytes read are compared with as many bytes of PROTOCOL
ProtocolAgreedPrefix(b, sz) == SubSeq(b, 1, sz) = SubSeq(PROTOCOL, 1, sz)

\* string(buf[:sz]) == PROTOCOL
ProtocolAgreed(b, sz) == SubSeq(b, 1, sz) = PROTOCOL

AgreeProtocolWrite ==
  /\ pc = "agreeProtocol"
  /\ \E ok \in BOOLEAN :
       /\ io' = Append(io, WriteEvent(PROTOCOL, ok))
       /\ pc' = IF ok THEN "agreeProtocol_read" ELSE AfterReturn("agreeProtocol", FALSE)
  /\ buf' = <<>>
  /\ UNCHANGED <<server, intBits, msgs, start, sendVars, codec, buf2, cnt, closes, cin, shorts, calls, cur, iters>>
  /\ UNCHANGED cliVars

AgreeProtocolRead ==
  /\ pc = "agreeProtocol_read"
  /\ \/ /\ ReadFails(12)
        /\ io' = Append(io, ReadEvent(12, 0, FALSE))
        /\ pc' = AfterReturn("agreeProtocol", FALSE)
        /\ UNCHANGED <<cin, shorts>>
     \/ \E sz \in ReadLens(12) :
          /\ io' = Append(io, ReadEvent(12, sz, TRUE))
          /\ Consume(12, sz)
          /\ pc' = AfterReturn("agreeProtocol", ProtocolAgreed(ReadInto(Zeros(12), sz), sz))
  /\ buf' = <<>>
  /\ UNCHANGED <<server, intBits, msgs, start, sendVars, codec, buf2, cnt, closes, calls, cur, iters>>
  /\ UNCHANGED cliVars

\* buf of agreeSecurity when the security types are written
SecurityTypes(rfb) ==
  [Zeros(8 + Len(AUTH_FAIL)) EXCEPT ![1] = 1, ![2] = IF rfb.Authenticate THEN 2 ELSE 1]

AgreeSecurityWrite ==
  /\ pc = "agreeSecurity"
  /\ \E ok \in BOOLEAN :
       LET b == SecurityTypes(server) IN
       /\ io' = Append(io, WriteEvent(Slice(b, 0, 2), ok))
       /\ pc' = IF ok THEN "agreeSecurity_read" ELSE AfterReturn("agreeSecurity", FALSE)
       /\ buf' = IF ok THEN b ELSE <<>>
  /\ UNCHANGED <<server, intBits, msgs, start, sendVars, codec, buf2, cnt, closes, cin, shorts, calls, cur, iters>>
  /\ UNCHANGED cliVars

\* after the selection byte is read: the challenge, or straight to the result
AfterSelection(rfb) ==
  IF rfb.Authenticate THEN "agreeSecurity_challenge" ELSE "agreeSecurity_result"

AgreeSecurityRead ==
  /\ pc = "agreeSecurity_read"
  /\ \/ /\ ReadFails(1)
        /\ io' = Append(io, ReadEvent(1, 0, FALSE))
        /\ pc' = AfterReturn("agreeSecurity", FALSE)
        /\ buf' = <<>>
        /\ UNCHANGED <<cin, shorts>>
     \/ \E sz \in ReadLens(1) :
          /\ io' = Append(io, ReadEvent(1, sz, TRUE))
          /\ Consume(1, sz)
          /\ buf' = ReadInto(buf, sz)
          /\ pc' = AfterSelection(server)
  /\ UNCHANGED <<server, intBits, msgs, start, sendVars, codec, buf2, cnt, closes, calls, cur, iters>>
  /\ UNCHANGED cliVars

AgreeSecurityChallenge ==
  /\ pc = "agreeSecurity_challenge"
  /\ \E r \in Challenges, ok \in BOOLEAN :
       LET b == Copy(buf, 0, r) IN
       /\ io' = Append(io, WriteEvent(Slice(b, 0, 16), ok))
       /\ pc' = IF ok THEN "agreeSecurity_response" ELSE AfterReturn("agreeSecurity", FALSE)
       /\ buf' = IF ok THEN b ELSE <<>>
       /\ buf2' = IF ok THEN Zeros(16) ELSE <<>>
  /\ UNCHANGED <<server, intBits, msgs, start, sendVars, codec, cnt, closes, cin, shorts, calls, cur, iters>>
  /\ UNCHANGED cliVars

\* buf3: the two halves of buf[:16] encrypted under the key of the text
ExpectedResponse(b, authText) ==
  LET bk == fixDesKey(authText)
  IN  DesEncrypt(bk, Slice(b, 0, Len(b))) \o DesEncrypt(bk, Slice(b, 8, Len(b)))

\* only the first block is compared
ResponseAcceptedFirstBlock(b2, b3) == SubSeq(b2, 1, DesBlock) = SubSeq(b3, 1, DesBlock)

\* bytes.Compare(buf2, buf3) == 0
ResponseAccepted(b2, b3) == b2 = b3

AgreeSecurityResponse ==
  /\ pc = "agreeSecurity_response"
  /\ \/ /\ ReadFails(16)
        /\ io' = Append(io, ReadEvent(16, 0, FALSE))
        /\ pc' = AfterReturn("agreeSecurity", FALSE)
        /\ buf' = <<>>
        /\ buf2' = <<>>
        /\ UNCHANGED <<cin, shorts>>
     \/ \E sz \in ReadLens(16) :
          LET b2 == ReadInto(buf2, sz) IN
          /\ io' = Append(io, ReadEvent(16, sz, TRUE))
          /\ Consume(16, sz)
          /\ buf2' = b2
          /\ pc' = IF ResponseAccepted(b2, ExpectedResponse(buf, server.AuthText))
                    THEN "agreeSecurity_result" ELSE "agreeSecurity_fail"
          /\ buf' = buf
  /\ UNCHANGED <<server, intBits, msgs, start, sendVars, codec, cnt, closes, calls, cur, iters>>
  /\ UNCHANGED cliVars

\* the reason is not copied into buf
AuthFailureNoReason(b) == SetUint32(SetUint32(b, 0, U32(1)), 4, U32(Len(AUTH_FAIL)))

\* buf when the failure is written: result 1, the length of the reason, the reason
AuthFailure(b) ==
  Copy(SetUint32(SetUint32(b, 0, U32(1)), 4, U32(Len(AUTH_FAIL))), 8, AUTH_FAIL)

\* the result of the write is not looked at
AgreeSecurityFail ==
  /\ pc = "agreeSecurity_fail"
  /\ \E ok \in BOOLEAN : io' = Append(io, WriteEvent(AuthFailure(buf), ok))
  /\ pc' = AfterReturn("agreeSecurity", FALSE)
  /\ buf' = <<>>
  /\ buf2' = <<>>
  /\ UNCHANGED <<server, intBits, msgs, start, sendVars, codec, cnt, closes, cin, shorts, calls, cur, iters>>
  /\ UNCHANGED cliVars

\* buf[:4] after SetUint32(buf, 0, 0)
SecurityResult(b) == Slice(SetUint32(b, 0, U32(0)), 0, 4)

AgreeSecurityResult ==
  /\ pc = "agreeSecurity_result"
  /\ \E ok \in BOOLEAN :
       /\ io' = Append(io, WriteEvent(SecurityResult(buf), ok))
       /\ pc' = AfterReturn("agreeSecurity", ok)
  /\ buf' = <<>>
  /\ buf2' = <<>>
  /\ UNCHANGED <<server, intBits, msgs, start, sendVars, codec, cnt, closes, cin, shorts, calls, cur, iters>>
  /\ UNCHANGED cliVars

PerformInitRead ==
  /\ pc = "performInit"
  /\ \/ /\ ReadFails(1)
        /\ io' = Append(io, ReadEvent(1, 0, FALSE))
        /\ pc' = AfterReturn("performInit", FALSE)
        /\ buf' = <<>>
        /\ UNCHANGED <<cin, shorts>>
     \/ \E sz \in ReadLens(1) :
          /\ io' = Append(io, ReadEvent(1, sz, TRUE))
          /\ Consume(1, sz)
          /\ buf' = ReadInto(Zeros(ScratchLen), sz)
          /\ pc' = "performInit_write"
  /\ UNCHANGED <<server, intBits, msgs, start, sendVars, codec, buf2, cnt, closes, calls, cur, iters>>
  /\ UNCHANGED cliVars

\* buf of performInit when ServerInit is written
ServerInit(b, rfb) ==
  LET pf == rfb.PixelFormat
      b1 == SetUint16(SetUint16(b, 0, rfb.Width), 2, rfb.Height)
      b2 == [b1 EXCEPT ![5] = pf.BitsPerPixel, ![6] = pf.Depth,
                       ![7] = pf.BigEndian, ![8] = pf.TrueColor]
      b3 == SetUint16(SetUint16(SetUint16(b2, 8, pf.RedMax), 10, pf.GreenMax),
                      12, pf.BlueMax)
      b4 == [b3 EXCEPT ![15] = pf.RedShift, ![16] = pf.GreenShift,
                       ![17] = pf.BlueShift, ![18] = 0, ![19] = 0, ![20] = 0]
  IN  Copy(SetUint32(b4, 20, U32(Len(rfb.BufferName))), 24, rfb.BufferName)

\* buf[:24+len(BufferName)] is out of range when it passes the end of buf:
\* the goroutine panics, which ends the process
PerformInitWrite ==
  /\ pc = "performInit_write"
  /\ LET b == ServerInit(buf, server)
         n == 24 + Len(server.BufferName)
     IN  IF n > Len(b)
         THEN /\ pc' = "panic"
              /\ io' = io
         ELSE \E ok \in BOOLEAN :
                /\ io' = Append(io, WriteEvent(Slice(b, 0, n), ok))
                /\ pc' = AfterReturn("performInit", ok)
  /\ buf' = <<>>
  /\ UNCHANGED <<server, intBits, msgs, start, sendVars, codec, buf2, cnt, closes, cin, shorts, calls, cur, iters>>
  /\ UNCHANGED cliVars

HandlerInit ==
  /\ pc = "handlerInit"
  /\ calls' = Append(calls, [name |-> "Init", args |-> <<>>])
  /\ pc' = "loop"
  /\ UNCHANGED <<server, intBits, msgs, start, sendVars, codec, buf, buf2, cnt, closes, cin, shorts, io, cur, iters>>
  /\ UNCHANGED cliVars

(***************************************************************************)
(* RFBConn.processClientRequest.                                           *)
(***************************************************************************)
\* int(v) of a uint32 v: the value itself where int has 64 bits, its two's
\* complement reading where int has 32 bits
ToInt(v, bits) ==
  IF bits = 32 /\ v.hi >= 32768 THEN [hi |-> v.hi - 65536, lo |-> v.lo] ELSE v

\* an int used as a length
LenOf(v) == (v.hi * 65536) + v.lo

\* the switch on the command byte; anything else is logged and the loop goes on
Dispatch(tag) ==
  CASE tag = 0 -> "case0"
    [] tag = 1 -> "case1"
    [] tag = 2 -> "case2"
    [] tag = 3 -> "case3"
    [] tag = 4 -> "case4"
    [] tag = 5 -> "case5"
    [] tag = 6 -> "case6"
    [] OTHER -> "loop"

\* the iteration of cur after a read asked for want bytes and got n
Extend(want, n) ==
  [cur EXCEPT !.msg = @ \o SubSeq(cin, 1, n), !.full = @ /\ n = want]

Finished(c, ncalls) ==
  [msg |-> c.msg, full |-> c.full, from |-> c.first, to |-> ncalls]

\* a read of the loop failed: the error is logged and the loop goes on
LoopReadFailsGoesOn(want) ==
  /\ ReadFails(want)
  /\ pc' = "loop"
  /\ buf' = <<>>
  /\ buf2' = <<>>
  /\ cnt' = 0
  /\ cur' = NoIter
  /\ UNCHANGED <<cin, shorts, calls, iters>>

\* a read of the loop failed: return, which runs the deferred Conn.Close
LoopReadFails(want) ==
  /\ ReadFails(want)
  /\ pc' = "loop_return"
  /\ buf' = <<>>
  /\ buf2' = <<>>
  /\ cnt' = 0
  /\ cur' = NoIter
  /\ UNCHANGED <<cin, shorts, calls, iters>>

LoopReadTag ==
  /\ pc = "loop"
  /\ \/ LoopReadFails(1)
     \/ \E n \in ReadLens(1) :
          LET b == ReadInto(Zeros(ScratchLen), n)
              c == [msg |-> SubSeq(cin, 1, n), full |-> TRUE, first |-> Len(calls)]
          IN  /\ Consume(1, n)
              /\ pc' = Dispatch(b[1])
              /\ IF Dispatch(b[1]) = "loop"
                 THEN /\ iters' = Append(iters, Finished(c, Len(calls)))
                      /\ cur' = NoIter
                      /\ buf' = <<>>
                 ELSE /\ iters' = iters
                      /\ cur' = c
                      /\ buf' = b
              /\ UNCHANGED <<buf2, cnt, calls>>
  /\ UNCHANGED <<server, intBits, msgs, start, sendVars, codec, closes, io>>
  /\ UNCHANGED cliVars

\* the handler is started with the call and the loop goes on without waiting
\* for it
CallAndGoOn(name, args) ==
  /\ calls' = Append(calls, [name |-> name, args |-> args])
  /\ pc' = "loop"

\* the handler is called with the call; it sends in HandlerReturn
Call(name, args) ==
  /\ calls' = Append(calls, [name |-> name, args |-> args])
  /\ pc' = "handler"

HandlerReturn ==
  /\ pc = "handler"
  /\ pc' = "loop"
  /\ iters' = Append(iters, Finished(cur, Len(calls)))
  /\ cur' = NoIter
  /\ buf' = <<>>
  /\ buf2' = <<>>
  /\ cnt' = 0
  /\ UNCHANGED <<server, intBits, msgs, start, sendVars, codec, closes, cin, shorts, io, calls>>
  /\ UNCHANGED cliVars

\* PixelFormat{buf[3], ..., buf[15]}
PixelFormatOf(b) ==
  [BitsPerPixel |-> b[4], Depth |-> b[5], BigEndian |-> b[6], TrueColor |-> b[7],
   RedMax |-> GetUint16(b, 7), GreenMax |-> GetUint16(b, 9),
   BlueMax |-> GetUint16(b, 11),
   RedShift |-> b[14], GreenShift |-> b[15], BlueShift |-> b[16]]

Case0 ==
  /\ pc = "case0"
  /\ \/ LoopReadFails(19)
     \/ \E n \in ReadLens(19) :
          LET b == ReadInto(buf, n) IN
          /\ Consume(19, n)
          /\ cur' = Extend(19, n)
          /\ buf' = b
          /\ Call("ProcessSetPixelFormat", <<PixelFormatOf(b)>>)
          /\ UNCHANGED <<buf2, cnt, iters>>
  /\ UNCHANGED <<server, intBits, msgs, start, sendVars, codec, closes, io>>
  /\ UNCHANGED cliVars

\* cnt of FixColorMapEntries
ColorMapCount(b) == GetUint16(b, 4)

Case1 ==
  /\ pc = "case1"
  /\ \/ LoopReadFails(6)
     \/ \E n \in ReadLens(6) :
          LET b == ReadInto(buf, n) IN
          /\ Consume(6, n)
          /\ cur' = Extend(6, n)
          /\ buf' = b
          /\ cnt' = ColorMapCount(b)
          /\ pc' = "case1_entries"
          /\ UNCHANGED <<buf2, calls, iters>>
  /\ UNCHANGED <<server, intBits, msgs, start, sendVars, codec, closes, io>>
  /\ UNCHANGED cliVars

\* tmpbuf is read and dropped
Case1Entries ==
  /\ pc = "case1_entries"
  /\ \/ LoopReadFails(6 * cnt)
     \/ \E n \in ReadLens(6 * cnt) :
          /\ Consume(6 * cnt, n)
          /\ iters' = Append(iters, Finished(Extend(6 * cnt, n), Len(calls)))
          /\ cur' = NoIter
          /\ buf' = <<>>
          /\ cnt' = 0
          /\ pc' = "loop"
          /\ UNCHANGED <<buf2, calls>>
  /\ UNCHANGED <<server, intBits, msgs, start, sendVars, codec, closes, io>>
  /\ UNCHANGED cliVars

\* cnt of SetEncodings
EncodingCount(b) == GetUint16(b, 1)

Case2 ==
  /\ pc = "case2"
  /\ \/ LoopReadFails(3)
     \/ \E n \in ReadLens(3) :
          LET b == ReadInto(buf, n) IN
          /\ Consume(3, n)
          /\ cur' = Extend(3, n)
          /\ buf' = b
          /\ cnt' = EncodingCount(b)
          /\ pc' = "case2_encodings"
          /\ UNCHANGED <<buf2, calls, iters>>
  /\ UNCHANGED <<server, intBits, msgs, start, sendVars, codec, closes, io>>
  /\ UNCHANGED cliVars

\* encodings[i] = int(GetUint32(buf, i*4))
Encodings(b, n, bits) == [i \in 1..n |-> ToInt(GetUint32(b, (i - 1) * 4), bits)]

\* buf[:cnt*4] is out of range when cnt*4 passes the end of buf: the
\* goroutine panics, which ends the process
Case2Encodings ==
  /\ pc = "case2_encodings"
  /\ IF cnt * 4 > Len(buf)
     THEN /\ pc' = "panic"
          /\ UNCHANGED <<buf, buf2, cnt, cin, shorts, calls, cur, iters>>
     ELSE \/ LoopReadFails(cnt * 4)
          \/ \E n \in ReadLens(cnt * 4) :
               LET b == ReadInto(buf, n) IN
               /\ Consume(cnt * 4, n)
               /\ cur' = Extend(cnt * 4, n)
               /\ buf' = b
               /\ Call("ProcessSetEncoding", <<Encodings(b, cnt, intBits)>>)
               /\ UNCHANGED <<buf2, cnt, iters>>
  /\ UNCHANGED <<server, intBits, msgs, start, sendVars, codec, closes, io>>
  /\ UNCHANGED cliVars

\* the arguments of ProcessUpdateRequest: x, y, width, height, incremental
UpdateRequestOf(b) ==
  <<GetUint16(b, 1), GetUint16(b, 3), GetUint16(b, 5), GetUint16(b, 7), b[1] = 1>>

Case3 ==
  /\ pc = "case3"
  /\ \/ LoopReadFails(9)
     \/ \E n \in ReadLens(9) :
          LET b == ReadInto(buf, n) IN
          /\ Consume(9, n)
          /\ cur' = Extend(9, n)
          /\ buf' = b
          /\ Call("ProcessUpdateRequest", UpdateRequestOf(b))
          /\ UNCHANGED <<buf2, cnt, iters>>
  /\ UNCHANGED <<server, intBits, msgs, start, sendVars, codec, closes, io>>
  /\ UNCHANGED cliVars

\* the arguments of ProcessKeyEvent: key, downflag
KeyEventOf(b, bits) == <<ToInt(GetUint32(b, 3), bits), b[1] = 1>>

Case4 ==
  /\ pc = "case4"
  /\ \/ LoopReadFails(7)
     \/ \E n \in ReadLens(7) :
          LET b == ReadInto(buf, n) IN
          /\ Consume(7, n)
          /\ cur' = Extend(7, n)
          /\ buf' = b
          /\ Call("ProcessKeyEvent", KeyEventOf(b, intBits))
          /\ UNCHANGED <<buf2, cnt, iters>>
  /\ UNCHANGED <<server, intBits, msgs, start, sendVars, codec, closes, io>>
  /\ UNCHANGED cliVars

\* x and y are taken from each other's bytes
PointerEventSwapped(b) == <<GetUint16(b, 3), GetUint16(b, 1), b[1]>>

\* the arguments of ProcessPointerEvent: x, y, button
PointerEventOf(b) == <<GetUint16(b, 1), GetUint16(b, 3), b[1]>>

Case5 ==
  /\ pc = "case5"
  /\ \/ LoopReadFails(5)
     \/ \E n \in ReadLens(5) :
          LET b == ReadInto(buf, n) IN
          /\ Consume(5, n)
          /\ cur' = Extend(5, n)
          /\ buf' = b
          /\ Call("ProcessPointerEvent", PointerEventOf(b))
          /\ UNCHANGED <<buf2, cnt, iters>>
  /\ UNCHANGED <<server, intBits, msgs, start, sendVars, codec, closes, io>>
  /\ UNCHANGED cliVars

\* sz of ClientCutText
CutTextLen(b, bits) == ToInt(GetUint32(b, 3), bits)

\* make([]byte, sz) panics when sz is negative
Case6 ==
  /\ pc = "case6"
  /\ \/ LoopReadFails(7)
     \/ \E n \in ReadLens(7) :
          LET b == ReadInto(buf, n)
              sz == CutTextLen(b, intBits)
          IN  /\ Consume(7, n)
              /\ cur' = Extend(7, n)
              /\ buf' = b
              /\ cnt' = IF sz.hi < 0 THEN 0 ELSE LenOf(sz)
              /\ buf2' = IF sz.hi < 0 THEN <<>> ELSE Zeros(LenOf(sz))
              /\ pc' = IF sz.hi < 0 THEN "panic" ELSE "case6_text"
              /\ UNCHANGED <<calls, iters>>
  /\ UNCHANGED <<server, intBits, msgs, start, sendVars, codec, closes, io>>
  /\ UNCHANGED cliVars

Case6Text ==
  /\ pc = "case6_text"
  /\ \/ LoopReadFails(cnt)
     \/ \E n \in ReadLens(cnt) :
          LET b2 == ReadInto(buf2, n) IN
          /\ Consume(cnt, n)
          /\ cur' = Extend(cnt, n)
          /\ buf2' = b2
          /\ Call("ProcessCutText", <<b2>>)
          /\ UNCHANGED <<buf, cnt, iters>>
  /\ UNCHANGED <<server, intBits, msgs, start, sendVars, codec, closes, io>>
  /\ UNCHANGED cliVars

\* defer fb.Conn.Close() of processClientRequest
LoopDeferredClose ==
  /\ pc = "loop_return"
  /\ closes' = closes + 1
  /\ pc' = "close"
  /\ UNCHANGED <<server, intBits, msgs, start, sendVars, codec, buf, buf2, cnt, cin, shorts, io, calls, cur, iters>>
  /\ UNCHANGED cliVars

\* fb.Conn.Close() at the end of process
ProcessClose ==
  /\ pc = "close"
  /\ closes' = closes + 1
  /\ pc' = "done"
  /\ UNCHANGED <<server, intBits, msgs, start, sendVars, codec, buf, buf2, cnt, cin, shorts, io, calls, cur, iters>>
  /\ UNCHANGED cliVars

(***************************************************************************)
(* RFBConn.SendCutText and RFBConn.SendRectangles, called by tasks of the  *)
(* application on a connection that is in its request loop.  A Conn.Write  *)
(* is one step: concurrent writes of one net.Conn do not mix their bytes.  *)
(***************************************************************************)
\* 1 by 1 at (0, 0) and 2 by 1 at (300, 258), 4 bytes to the pixel
Rectangles ==
  <<[X |-> 0, Y |-> 0, Width |-> 1, Height |-> 1, Buffer |-> <<170, 187, 204, 221>>],
    [X |-> 300, Y |-> 258, Width |-> 2, Height |-> 1,
     Buffer |-> <<1, 2, 3, 4, 5, 6, 7, 8>>]>>

\* the arguments of SendRectangles: none, one, two, and the two the other
\* way round
RectLists ==
  {<<>>, <<Rectangles[1]>>, <<Rectangles[1], Rectangles[2]>>,
   <<Rectangles[2], Rectangles[1]>>}

\* the arguments of SendCutText: "" and "hi"
Texts == {<<>>, <<104, 105>>}

\* buf of SendCutText with the length stored least significant byte first
CutTextBufLittleEndian(text) ==
  LET n == Len(text)
      b == [Zeros(8 + n) EXCEPT ![1] = 3, ![5] = n % 256, ![6] = (n \div 256) % 256]
  IN  Copy(b, 8, text)

\* buf of SendCutText when it is written
CutTextBuf(text) ==
  Copy(SetUint32([Zeros(8 + Len(text)) EXCEPT ![1] = 3], 4, U32(Len(text))), 8, text)

\* tmpbuf of SendRectangles when the header is written
UpdateHeader(rects) == SetUint16([Zeros(4) EXCEPT ![1] = 0], 2, Len(rects))

\* tmpbuf of a rectangle with X and Y in each other's place
RectangleBufSwapped(rect) ==
  LET b1 == SetUint16(SetUint16(Zeros(12 + Len(rect.Buffer)), 0, rect.Y), 2, rect.X)
      b2 == SetUint16(SetUint16(b1, 4, rect.Width), 6, rect.Height)
  IN  Copy(SetUint32(b2, 8, U32(0)), 12, rect.Buffer)

\* tmpbuf of a rectangle when it is written
RectangleBuf(rect) ==
  LET b1 == SetUint16(SetUint16(Zeros(12 + Len(rect.Buffer)), 0, rect.X), 2, rect.Y)
      b2 == SetUint16(SetUint16(b1, 4, rect.Width), 6, rect.Height)
  IN  Copy(SetUint32(b2, 8, U32(0)), 12, rect.Buffer)

\* the stream with the bytes of a write put before what was written earlier
TransmitFirst(w, e) == <<e>> \o w

\* Conn.Write: the bytes follow what was written before
Transmit(w, e) == Append(w, e)

\* a failed write is not looked at while rectangles are left
AfterWriteGoesOn(ok, more) ==
  IF more THEN "more" ELSE IF ok THEN "nil" ELSE "error"

\* after a Write: return err, go on to the next rectangle, or return nil
AfterWrite(ok, more) ==
  IF ~ok THEN "error" ELSE IF more THEN "more" ELSE "nil"

\* the task makes a call: it is in none, and the run has calls left
CanCall(t) == senders[t].pc = "idle" /\ Len(sends) < MaxCalls

\* the call id has returned err
Returned(id, err) == [sends EXCEPT ![id].err = err]

CallSendCutText(t) ==
  /\ CanCall(t)
  /\ \E text \in Texts :
       /\ sends' = Append(sends, [task |-> t, fn |-> "SendCutText", rects |-> <<>>,
                                  text |-> text, err |-> "pending"])
       /\ senders' = [senders EXCEPT ![t] =
                        [pc |-> "SendCutText", id |-> Len(sends) + 1, rects |-> <<>>,
                         text |-> text, i |-> 0]]
  /\ wire' = wire
  /\ UNCHANGED <<server, connVars, start, codec>>

SendCutTextWrite(t) ==
  /\ senders[t].pc = "SendCutText"
  /\ \E ok \in BOOLEAN :
       /\ wire' = Transmit(wire, [id |-> senders[t].id,
                                  data |-> CutTextBuf(senders[t].text), ok |-> ok])
       /\ sends' = Returned(senders[t].id, IF ok THEN "nil" ELSE "error")
  /\ senders' = [senders EXCEPT ![t] = NoCall]
  /\ UNCHANGED <<server, connVars, start, codec>>

CallSendRectangles(t) ==
  /\ CanCall(t)
  /\ \E rects \in RectLists :
       /\ sends' = Append(sends, [task |-> t, fn |-> "SendRectangles", rects |-> rects,
                                  text |-> <<>>, err |-> "pending"])
       /\ senders' = [senders EXCEPT ![t] =
                        [pc |-> "SendRectangles", id |-> Len(sends) + 1,
                         rects |-> rects, text |-> <<>>, i |-> 0]]
  /\ wire' = wire
  /\ UNCHANGED <<server, connVars, start, codec>>

\* the task after a Write of SendRectangles before rectangle i + 1
AfterRectanglesWrite(s, ok) ==
  LET next == AfterWrite(ok, s.i < Len(s.rects)) IN
  IF next = "more" THEN [s EXCEPT !.pc = "SendRectangles_rect", !.i = s.i + 1]
  ELSE NoCall

SendRectanglesHeader(t) ==
  /\ senders[t].pc = "SendRectangles"
  /\ \E ok \in BOOLEAN :
       LET s == senders[t]
           next == AfterWrite(ok, s.i < Len(s.rects))
       IN  /\ wire' = Transmit(wire, [id |-> s.id, data |-> UpdateHeader(s.rects),
                                      ok |-> ok])
           /\ senders' = [senders EXCEPT ![t] = AfterRectanglesWrite(s, ok)]
           /\ sends' = IF next = "more" THEN sends ELSE Returned(s.id, next)
  /\ UNCHANGED <<server, connVars, start, codec>>

SendRectanglesRect(t) ==
  /\ senders[t].pc = "SendRectangles_rect"
  /\ \E ok \in BOOLEAN :
       LET s == senders[t]
           next == AfterWrite(ok, s.i < Len(s.rects))
       IN  /\ wire' = Transmit(wire, [id |-> s.id, data |-> RectangleBuf(s.rects[s.i]),
                                      ok |-> ok])
           /\ senders' = [senders EXCEPT ![t] = AfterRectanglesWrite(s, ok)]
           /\ sends' = IF next = "more" THEN sends ELSE Returned(s.id, next)
  /\ UNCHANGED <<server, connVars, start, codec>>

(***************************************************************************)
(* The client: what arrives on the stream.                                 *)
(***************************************************************************)
\* "RFB 003.008\n", "RFB 003.003\n", "RFB 003"
VersionReplies ==
  {PROTOCOL, [PROTOCOL EXCEPT ![11] = 51], SubSeq(PROTOCOL, 1, 7)}

\* the challenge on the wire, <<>> before it is written
ChallengeOnWire ==
  IF \E i \in 1..Len(io) : io[i].op = "write" /\ io[i].ok /\ Len(io[i].data) = 16
  THEN io[CHOOSE i \in 1..Len(io) :
            io[i].op = "write" /\ io[i].ok /\ Len(io[i].data) = 16].data
  ELSE <<>>

\* what a client that knows the password answers to the challenge c
ClientResponse(c, password) ==
  LET key == [i \in 1..8 |->
                fixDesKeyByte(IF i <= Len(password) THEN password[i] ELSE 0)]
  IN  DesEncrypt(key, SubSeq(c, 1, 8)) \o DesEncrypt(key, SubSeq(c, 9, 16))

\* the right response, 16 zero bytes, and a response right in its first block
Responses(c) ==
  LET r == ClientResponse(c, server.AuthText)
  IN  {r, Zeros(16), SubSeq(r, 1, 8) \o Zeros(8)}

\* the shared flag of ClientInit
SharedFlags == {1}

SetPixelFormatMsg ==
  <<0, 0, 0, 0, 32, 24, 0, 1, 0, 255, 0, 255, 0, 255, 16, 8, 0, 0, 0, 0>>

\* FixColourMapEntries: first colour 0, one entry
FixColourMapMsg == <<1, 0, 0, 0, 0, 1, 255, 255, 0, 0, 255, 255>>

\* SetEncodings with the encodings 0 and -239 (FF FF FF 11)
SetEncodingsMsg == <<2, 0, 0, 2, 0, 0, 0, 0, 255, 255, 255, 17>>

\* SetEncodings with n encodings, all 0 (Raw)
SetEncodingsOf(n) == <<2, 0, n \div 256, n % 256>> \o Zeros(4 * n)

\* incremental, x = 0, y = 0, 640 by 480
UpdateRequestMsg == <<3, 1, 0, 0, 0, 0, 2, 128, 1, 224>>

\* Return (keysym FF0D) down
KeyEventMsg == <<4, 1, 0, 0, 0, 0, 255, 13>>

\* keysym 8000FF0D up
KeyEventHighMsg == <<4, 0, 0, 0, 128, 0, 255, 13>>

\* buttons 1 and 2 at x = 400, y = 288
PointerEventMsg == <<5, 3, 1, 144, 1, 32>>

\* "hi"
CutTextMsg == <<6, 0, 0, 0, 0, 0, 0, 2, 104, 105>>

Requests ==
  {SetPixelFormatMsg, FixColourMapMsg, SetEncodingsMsg, SetEncodingsOf(0),
   SetEncodingsOf(25), SetEncodingsOf(26), UpdateRequestMsg, KeyEventMsg,
   KeyEventHighMsg,
   PointerEventMsg, CutTextMsg, <<9>>}

\* the server still has the stream open
Open == pc \notin {"loop_return", "close", "done", "panic"}

ClientVersion ==
  /\ Open /\ cphase = "version"
  /\ \E m \in VersionReplies : cin' = cin \o m
  /\ cphase' = "selection"
  /\ UNCHANGED <<server, intBits, msgs, start, sendVars, codec, cclosed, nsent, cresp, reqs>>
  /\ UNCHANGED srvVars

ClientSelection ==
  /\ Open /\ cphase = "selection"
  /\ \E b \in {1, 2} : cin' = Append(cin, b)
  /\ cphase' = IF server.Authenticate THEN "response" ELSE "init"
  /\ UNCHANGED <<server, intBits, msgs, start, sendVars, codec, cclosed, nsent, cresp, reqs>>
  /\ UNCHANGED srvVars

ClientRespond ==
  /\ Open /\ cphase = "response"
  /\ ChallengeOnWire # <<>>
  /\ \E r \in Responses(ChallengeOnWire) :
       /\ cin' = cin \o r
       /\ cresp' = r
  /\ cphase' = "init"
  /\ UNCHANGED <<server, intBits, msgs, start, sendVars, codec, cclosed, nsent, reqs>>
  /\ UNCHANGED srvVars

ClientInit ==
  /\ Open /\ cphase = "init"
  /\ \E shared \in SharedFlags : cin' = Append(cin, shared)
  /\ cphase' = "request"
  /\ UNCHANGED <<server, intBits, msgs, start, sendVars, codec, cclosed, nsent, cresp, reqs>>
  /\ UNCHANGED srvVars

ClientRequest ==
  /\ Open /\ cphase = "request"
  /\ nsent < msgs
  /\ Len(cin) < Window
  /\ \E m \in Requests :
       /\ cin' = cin \o m
       /\ reqs' = Append(reqs, m)
  /\ nsent' = nsent + 1
  /\ UNCHANGED <<server, intBits, msgs, start, sendVars, codec, cphase, cclosed, cresp>>
  /\ UNCHANGED srvVars

\* the server sees the end of the stream once it has read what was sent
\* before it, so the close is taken when nothing is left to read
ClientClose ==
  /\ Open /\ ~cclosed
  /\ cin = <<>>
  /\ cclosed' = TRUE
  /\ cphase' = "closed"
  /\ UNCHANGED <<server, intBits, msgs, start, sendVars, codec, cin, nsent, cresp, reqs>>
  /\ UNCHANGED srvVars

(***************************************************************************)
(* The connection.                                                         *)
(***************************************************************************)
Next ==
  \/ AgreeProtocolWrite \/ AgreeProtocolRead
  \/ AgreeSecurityWrite \/ AgreeSecurityRead \/ AgreeSecurityChallenge
  \/ AgreeSecurityResponse \/ AgreeSecurityFail \/ AgreeSecurityResult
  \/ PerformInitRead \/ PerformInitWrite \/ HandlerInit
  \/ LoopReadTag \/ HandlerReturn
  \/ Case0 \/ Case1 \/ Case1Entries \/ Case2 \/ Case2Encodings \/ Case3
  \/ Case4 \/ Case5 \/ Case6 \/ Case6Text
  \/ LoopDeferredClose \/ ProcessClose
  \/ ClientVersion \/ ClientSelection \/ ClientRespond \/ ClientInit
  \/ ClientRequest \/ ClientClose

Spec == Init /\ [][Next]_vars

\* the steps of the goroutine of the connection
NextServer ==
  \/ AgreeProtocolWrite \/ AgreeProtocolRead
  \/ AgreeSecurityWrite \/ AgreeSecurityRead \/ AgreeSecurityChallenge
  \/ AgreeSecurityResponse \/ AgreeSecurityFail \/ AgreeSecurityResult
  \/ PerformInitRead \/ PerformInitWrite \/ HandlerInit
  \/ LoopReadTag \/ HandlerReturn
  \/ Case0 \/ Case1 \/ Case1Entries \/ Case2 \/ Case2Encodings \/ Case3
  \/ Case4 \/ Case5 \/ Case6 \/ Case6Text
  \/ LoopDeferredClose \/ ProcessClose

\* the goroutine runs when it can: a read, a write or a handler call that can
\* return does return
LiveSpec == Init /\ [][Next]_vars /\ WF_vars(NextServer)

(***************************************************************************)
(* The request loop of a connection whose handshake is done: the state in  *)
(* which process() calls processClientRequest, and the steps from there.   *)
(***************************************************************************)
\* the reads and writes of a handshake without authentication in which
\* nothing failed and the client chose security type 1 and a shared session
HandshakeDone(rfb) ==
  <<WriteEvent(PROTOCOL, TRUE),
    [op |-> "read", want |-> 12, data |-> PROTOCOL, ok |-> TRUE],
    WriteEvent(Slice(SecurityTypes(rfb), 0, 2), TRUE),
    [op |-> "read", want |-> 1, data |-> <<1>>, ok |-> TRUE],
    WriteEvent(SecurityResult(SecurityTypes(rfb)), TRUE),
    [op |-> "read", want |-> 1, data |-> <<1>>, ok |-> TRUE],
    WriteEvent(Slice(ServerInit(Zeros(ScratchLen), rfb), 0, 24 + Len(rfb.BufferName)),
               TRUE)>>

\* Handler.Init has returned and the client has sent no request yet
InLoop ==
  /\ server = BaseServer
  /\ pc = "loop"
  /\ buf = <<>> /\ buf2 = <<>> /\ cnt = 0 /\ closes = 0
  /\ cin = <<>> /\ cphase = "request" /\ cclosed = FALSE /\ nsent = 0
  /\ cresp = <<>> /\ shorts = 0
  /\ io = HandshakeDone(BaseServer)
  /\ calls = <<[name |-> "Init", args |-> <<>>]>>
  /\ cur = NoIter /\ iters = <<>> /\ reqs = <<>>
  /\ start = Accepting
  /\ senders = [t \in Tasks |-> NoCall] /\ wire = <<>> /\ sends = <<>>
  /\ codec = NoCodec

InitLoop ==
  /\ intBits \in IntSizes
  /\ msgs = MaxLoopMsgs
  /\ InLoop

NextLoop ==
  \/ LoopReadTag \/ HandlerReturn
  \/ Case0 \/ Case1 \/ Case1Entries \/ Case2 \/ Case2Encodings \/ Case3
  \/ Case4 \/ Case5 \/ Case6 \/ Case6Text
  \/ LoopDeferredClose \/ ProcessClose
  \/ ClientRequest \/ ClientClose

LoopSpec == InitLoop /\ [][NextLoop]_vars

(***************************************************************************)
(* The emission calls on a connection that is in its request loop.         *)
(***************************************************************************)
\* the connection is in its request loop and no task is in a call
InitSend ==
  /\ intBits \in IntSizes
  /\ msgs = MaxMsgs
  /\ InLoop

NextSend ==
  \E t \in Tasks :
    \/ CallSendCutText(t) \/ SendCutTextWrite(t)
    \/ CallSendRectangles(t) \/ SendRectanglesHeader(t) \/ SendRectanglesRect(t)

SendSpec == InitSend /\ [][NextSend]_vars

(***************************************************************************)
(* The handshake as the wire shows it.                                     *)
(***************************************************************************)
IsWrite(i) == i \in 1..Len(io) /\ io[i].op = "write"

IsRead(i) == i \in 1..Len(io) /\ io[i].op = "read"

\* places in the handshake of the steps after the selection byte
ResultAt == IF server.Authenticate THEN 7 ELSE 5

ResponseAt == ResultAt - 1

ServerInitAt == IF server.Authenticate THEN 9 ELSE 7

\* the response the server's read returned, <<>> before the read
ResponseRead ==
  IF server.Authenticate /\ IsRead(ResponseAt) /\ io[ResponseAt].ok
  THEN io[ResponseAt].data ELSE <<>>

\* the response to the challenge on the wire under the server's text
RightResponse == ClientResponse(ChallengeOnWire, server.AuthText)

\* 00 00 00 00
ResultOkWire == <<0, 0, 0, 0>>

\* 00 00 00 01, 00 00 00 16, "Authentication Failure"
AuthFailureWire ==
  <<0, 0, 0, 1, 0, 0, 0, 22, 65, 117, 116, 104, 101, 110, 116, 105, 99, 97, 116,
    105, 111, 110, 32, 70, 97, 105, 108, 117, 114, 101>>

ResultOkWritten == \E i \in 1..Len(io) : IsWrite(i) /\ io[i].data = ResultOkWire

ServerInitWritten == IsWrite(ServerInitAt)

\* C1: with authentication on, whatever selection byte the client sent,
\* SecurityResult 0 is written, ServerInit is written or Init is invoked only
\* when the 16 bytes the server read as the response are the encryption of
\* the challenge it sent under the key of auth_text.
C1_InitOnlyIfAuthenticated ==
  (server.Authenticate /\ (ResultOkWritten \/ ServerInitWritten \/ calls # <<>>))
    => (ChallengeOnWire # <<>> /\ ResponseRead = RightResponse)

\* Init was invoked on an authenticating server although the client selected
\* type 1 (None)
C1_Witness ==
  /\ server.Authenticate
  /\ IsRead(4) /\ io[4].data = <<1>>
  /\ calls # <<>> /\ calls[1].name = "Init"

\* the server read a response that is not the right one
Mismatch ==
  /\ server.Authenticate
  /\ IsRead(ResponseAt) /\ io[ResponseAt].ok
  /\ io[ResponseAt].data # RightResponse

\* C2: after a response that differs from the expected one the only thing
\* the server writes is the 30-byte failure, then it closes; SecurityResult
\* 0 and ServerInit are never written and no handler method is invoked.
C2_AuthFailure ==
  Mismatch =>
    /\ calls = <<>>
    /\ ~ResultOkWritten
    /\ pc \in {"agreeSecurity_fail", "close", "done"}
    /\ pc = "agreeSecurity_fail" => Len(io) = ResponseAt
    /\ pc # "agreeSecurity_fail" =>
         /\ Len(io) = ResponseAt + 1
         /\ IsWrite(ResponseAt + 1)
         /\ io[ResponseAt + 1].data = AuthFailureWire
    /\ pc = "done" => closes = 1

\* the failure went out after a response of 16 zero bytes and the stream is closed
C2_Witness ==
  /\ Mismatch
  /\ io[ResponseAt].data = Zeros(16)
  /\ pc = "done" /\ closes = 1
  /\ io[Len(io)].ok /\ io[Len(io)].data = AuthFailureWire

\* C3: when the client has sent the 16 bytes of the right response, the
\* server, once its read of the response has returned, goes on to
\* SecurityResult 0, however the 16 bytes were delivered.
C3_RightResponseAccepted ==
  (server.Authenticate /\ cresp # <<>> /\ cresp = RightResponse
     /\ IsRead(ResponseAt) /\ io[ResponseAt].ok)
    => /\ pc # "agreeSecurity_fail"
       /\ ~(\E i \in 1..Len(io) : IsWrite(i) /\ io[i].data = AuthFailureWire)

\* the steps of a handshake that goes through: what is written (w) or read
\* (r) and how many bytes
HandshakeSteps ==
  <<<<"write", 12>>, <<"read", 12>>, <<"write", 2>>, <<"read", 1>>>>
    \o (IF server.Authenticate THEN <<<<"write", 16>>, <<"read", 16>>>> ELSE <<>>)
    \o <<<<"write", 4>>, <<"read", 1>>, <<"write", 24 + Len(server.BufferName)>>>>

\* C4: the reads and writes of the handshake are a prefix of the fixed
\* sequence (version out and in, security types out, selection in, with
\* authentication challenge out and response in, SecurityResult out, shared
\* flag in, ServerInit out); a step follows only steps that succeeded, and
\* the version reply and the security types are what they must be.
C4_HandshakeOrder ==
  /\ Len(io) <= Len(HandshakeSteps)
  /\ \A i \in 1..Len(io) :
       \/ <<io[i].op, io[i].want>> = HandshakeSteps[i]
       \/ /\ server.Authenticate /\ i = ResultAt /\ i = Len(io)
          /\ IsWrite(i) /\ io[i].data = AuthFailureWire
  /\ \A i \in 1..(Len(io) - 1) : io[i].ok
  /\ Len(io) >= 1 => io[1].data = PROTOCOL
  /\ Len(io) >= 3 => /\ io[2].data = PROTOCOL
                     /\ io[3].data = <<1, IF server.Authenticate THEN 2 ELSE 1>>
  /\ Len(io) > ResultAt => io[ResultAt].data = ResultOkWire

\* a handshake with authentication has gone through all its nine steps
C4_Witness ==
  /\ server.Authenticate
  /\ Len(io) = 9 /\ io[9].ok
  /\ pc = "loop"

\* C5: for every accepted configuration the ServerInit written is 24 +
\* len(buffer_name) bytes: Width and Height as big-endian u16 equal to the
\* configured values, the 13 pixel format bytes, 3 zero bytes, the length of
\* the name as u32, the name; and the write is reached for every name.
C5_ServerInitLayout ==
  /\ ~(pc = "panic" /\ calls = <<>>)
  /\ IsWrite(ServerInitAt) =>
       LET d == io[ServerInitAt].data
           pf == server.PixelFormat
           n == Len(server.BufferName)
       IN  /\ Len(d) = 24 + n
           /\ (d[1] * 256) + d[2] = server.Width
           /\ (d[3] * 256) + d[4] = server.Height
           /\ SubSeq(d, 5, 20) =
                <<pf.BitsPerPixel, pf.Depth, pf.BigEndian, pf.TrueColor,
                  pf.RedMax \div 256, pf.RedMax % 256, pf.GreenMax \div 256,
                  pf.GreenMax % 256, pf.BlueMax \div 256, pf.BlueMax % 256,
                  pf.RedShift, pf.GreenShift, pf.BlueShift, 0, 0, 0>>
           /\ SubSeq(d, 21, 24) = <<0, 0, n \div 256, n % 256>>
           /\ SubSeq(d, 25, Len(d)) = server.BufferName

LoopPcs ==
  {"loop", "handler", "case0", "case1", "case1_entries", "case2",
   "case2_encodings", "case3", "case4", "case5", "case6", "case6_text",
   "loop_return"}

\* the version reply the server read is not the 12 bytes of PROTOCOL
BadVersionReply == IsRead(2) /\ (~io[2].ok \/ io[2].data # PROTOCOL)

HandshakeFailed ==
  \/ \E i \in 1..Len(io) : ~io[i].ok
  \/ BadVersionReply
  \/ Mismatch

\* C6: Init is invoked at most once, as the first handler call, right after
\* the ServerInit write has succeeded; a connection in the request loop has
\* had it invoked; a connection whose handshake failed has no handler call.
C6_InitOnce ==
  /\ Cardinality({i \in 1..Len(calls) : calls[i].name = "Init"}) <= 1
  /\ calls # <<>> =>
       /\ calls[1].name = "Init"
       /\ Len(io) = ServerInitAt /\ IsWrite(ServerInitAt) /\ io[ServerInitAt].ok
  /\ pc \in LoopPcs => calls # <<>>
  /\ HandshakeFailed => calls = <<>>

\* Init and then one Process* call
C6_Witness ==
  /\ Len(calls) = 2
  /\ calls[1].name = "Init" /\ calls[2].name # "Init"

\* C7: after a version reply that is not the 12 bytes of PROTOCOL (other
\* bytes, fewer bytes, a read error) the server writes nothing more and
\* closes the stream.
C7_VersionMismatch ==
  BadVersionReply =>
    /\ Len(io) = 2
    /\ calls = <<>>
    /\ pc \in {"close", "done"}
    /\ pc = "done" => closes = 1

\* the read of the reply returned fewer than 12 bytes and the stream is closed
C7_Witness ==
  /\ BadVersionReply /\ io[2].ok /\ Len(io[2].data) < 12
  /\ pc = "done" /\ closes = 1

(***************************************************************************)
(* The request loop as the wire shows it: the fields of 4.3.               *)
(***************************************************************************)
\* the big-endian u16 and u32 at the bytes i, i+1, .. of m
Be16(m, i) == (m[i] * 256) + m[i + 1]

Be32(m, i) == [hi |-> Be16(m, i), lo |-> Be16(m, i + 2)]

\* the same 32 bits
SameBits(a, b) == a.lo = b.lo /\ (a.hi - b.hi) % 65536 = 0

\* the call the dispatch table gives for the message m
RightCall(m, c) ==
  CASE m[1] = 0 ->
         /\ c.name = "ProcessSetPixelFormat"
         /\ c.args = <<[BitsPerPixel |-> m[5], Depth |-> m[6], BigEndian |-> m[7],
                        TrueColor |-> m[8], RedMax |-> Be16(m, 9),
                        GreenMax |-> Be16(m, 11), BlueMax |-> Be16(m, 13),
                        RedShift |-> m[15], GreenShift |-> m[16],
                        BlueShift |-> m[17]]>>
    [] m[1] = 3 ->
         /\ c.name = "ProcessUpdateRequest"
         /\ c.args = <<Be16(m, 3), Be16(m, 5), Be16(m, 7), Be16(m, 9), m[2] = 1>>
    [] m[1] = 4 ->
         /\ c.name = "ProcessKeyEvent"
         /\ c.args[2] = (m[2] = 1)
         /\ SameBits(c.args[1], Be32(m, 5))
         /\ intBits = 64 => c.args[1] = Be32(m, 5)
    [] m[1] = 5 ->
         /\ c.name = "ProcessPointerEvent"
         /\ c.args = <<Be16(m, 3), Be16(m, 5), m[2]>>
    [] m[1] = 6 ->
         /\ c.name = "ProcessCutText"
         /\ Len(m) = 8 + LenOf(Be32(m, 5))
         /\ c.args = <<SubSeq(m, 9, Len(m))>>

C9_SetEncodingsAnyCount ==
  /\ ~(pc = "panic" /\ cur.msg # <<>> /\ cur.msg[1] = 2)
  /\ \A k \in 1..Len(iters) :
       LET it == iters[k] IN
       (it.full /\ it.msg[1] = 2) =>
         /\ Len(it.msg) = 4 + (4 * Be16(it.msg, 3))
         /\ it.to = it.from + 1
         /\ calls[it.to].name = "ProcessSetEncoding"
         /\ Len(calls[it.to].args[1]) = Be16(it.msg, 3)
         /\ \A j \in 1..Be16(it.msg, 3) :
              SameBits(calls[it.to].args[1][j], Be32(it.msg, 1 + (4 * j)))

\* C10: every encoding passed to ProcessSetEncoding is the signed 32-bit
\* reading of its 4 wire bytes: below 2^31, and negative when the top bit of
\* the wire bytes is set.
C10_EncodingsSigned ==
  \A k \in 1..Len(iters) :
    LET it == iters[k] IN
    (it.full /\ it.msg[1] = 2 /\ it.to = it.from + 1) =>
      \A j \in 1..Len(calls[it.to].args[1]) :
        LET id == calls[it.to].args[1][j] IN
        /\ id.hi < 32768
        /\ Be16(it.msg, 1 + (4 * j)) >= 32768 => id.hi < 0

(***************************************************************************)
(* StartServer.                                                            *)
(***************************************************************************)
\* the configuration breaks a rule of 4.7
BreaksRule(rfb) ==
  LET pf == rfb.PixelFormat IN
  \/ rfb.Width <= 0
  \/ rfb.Height <= 0
  \/ rfb.Handler = "nil"
  \/ rfb.Authenticate /\ rfb.AuthText = <<>>
  \/ pf.BitsPerPixel \notin {8, 16, 24, 32}
  \/ /\ pf.TrueColor = 1
     /\ \/ 0 \in {pf.RedMax, pf.GreenMax, pf.BlueMax}
        \/ Cardinality({pf.RedShift, pf.GreenShift, pf.BlueShift}) < 3

\* C17: StartServer sends an error without having called Listen exactly
\* when the configuration breaks a rule of the validation; an empty port has
\* become "5900" and is by itself no error.
C17_StartServerValidation ==
  start.pc # "validate" =>
    /\ (start.pc = "returned" /\ start.err # "nil" /\ ~start.listened)
          <=> BreaksRule(server)
    /\ BreaksRule(server) => start.err = "configuration"
    /\ server.Port = (IF start.port = "" THEN "5900" ELSE start.port)

\* a configuration with an empty port whose only fault is two equal shifts
\* was refused before Listen, its port being "5900" by then
C17_Witness ==
  /\ start.pc = "returned" /\ start.err = "configuration" /\ ~start.listened
  /\ start.port = "" /\ server.Port = "5900"
  /\ server.PixelFormat.TrueColor = 1
  /\ server.PixelFormat.RedShift = server.PixelFormat.GreenShift
  /\ server.Width > 0 /\ server.Height > 0 /\ server.Handler # "nil"
  /\ server.PixelFormat.BitsPerPixel = 32 /\ server.PixelFormat.RedMax # 0
  /\ server.PixelFormat.BlueMax # 0 /\ ~server.Authenticate
(***************************************************************************)
(* The order of the request loop.                                          *)
(***************************************************************************)
RECURSIVE Flatten(_)
\* the sequences of ss one after the other
Flatten(ss) == IF ss = <<>> THEN <<>> ELSE Head(ss) \o Flatten(Tail(ss))

\* the bytes the iterations have read, in the order read
BytesRead == Flatten([k \in 1..Len(iters) |-> iters[k].msg]) \o cur.msg

\* C11: while a handler call is in progress it is the only call of its
\* iteration, nothing is read and no other call begins; every byte read
\* of a loop that has not ended belongs to an iteration that is finished or
\* is the current one, so a tag is read only when the call before it has
\* returned; the calls are in the
\* order of the iterations, which read the client's bytes in stream order,
\* and a message read whole gives the call of its own fields.
C11_Sequential ==
  /\ [](/\ pc = "handler" => (cur.msg # <<>> /\ Len(calls) = cur.first + 1)
        /\ pc \notin {"loop_return", "close", "done"} =>
             BytesRead \o cin = Flatten(reqs)
        /\ \A k \in 1..Len(iters) :
             /\ 1 <= iters[k].from /\ iters[k].from <= iters[k].to
             /\ iters[k].to <= iters[k].from + 1
             /\ iters[k].to <= Len(calls)
             /\ k > 1 => iters[k - 1].to = iters[k].from
             /\ (iters[k].full /\ iters[k].msg[1] \in {0, 3, 4, 5, 6}) =>
                  (iters[k].to = iters[k].from + 1
                     /\ RightCall(iters[k].msg, calls[iters[k].to])))
  /\ [][pc = "handler" => (calls' = calls /\ Len(cin') >= Len(cin))]_vars

\* a pointer event and then a key event have been sent and dispatched in
\* that order
C11_Witness ==
  /\ Len(iters) = 2 /\ Len(calls) = 3 /\ pc = "loop"
  /\ reqs = <<PointerEventMsg, KeyEventMsg>>
  /\ iters[1].msg = PointerEventMsg /\ iters[2].msg = KeyEventMsg
  /\ calls[2].name = "ProcessPointerEvent" /\ calls[3].name = "ProcessKeyEvent"
(***************************************************************************)
(* The end of the task.                                                    *)
(***************************************************************************)
\* C12: whatever the client has sent and whatever has failed in the task of
\* the connection, the process of the server is alive and StartServer is in
\* its accept loop.
C12_ServerSurvives == start.pc = "accept" /\ pc # "panic"

\* len(p) of the read the request loop is at
LoopWant ==
  CASE pc = "loop" -> 1
    [] pc = "case0" -> 19
    [] pc = "case1" -> 6
    [] pc = "case1_entries" -> 6 * cnt
    [] pc = "case2" -> 3
    [] pc = "case2_encodings" -> 4 * cnt
    [] pc = "case3" -> 9
    [] pc = "case4" -> 7
    [] pc = "case5" -> 5
    [] pc = "case6" -> 7
    [] pc = "case6_text" -> cnt
    [] OTHER -> 0

\* the read the request loop is at sends an error
LoopReadError ==
  /\ ReadFails(LoopWant)
  /\ ~(pc = "case2_encodings" /\ 4 * cnt > Len(buf))

\* C13: once the handshake has failed, or a read of the request loop sends
\* an error, the stream is closed in the end; the step of the loop at a read
\* that sends an error is the return of the loop; and once the task has
\* closed the stream no handler call is made.
C13_ClosedOnEveryExit ==
  /\ (HandshakeFailed \/ LoopReadError) ~> (pc = "done" /\ closes >= 1)
  /\ [][LoopReadError => pc' = "loop_return"]_vars
  /\ [][closes >= 1 => calls' = calls]_vars

\* end of stream in the request loop after a handler call: the loop has
\* returned and the stream is closed
C13_Witness ==
  /\ pc = "done" /\ closes = 2
  /\ Len(calls) = 2 /\ Len(iters) = 1 /\ cclosed
(***************************************************************************)
(* The framing of the request loop.                                        *)
(***************************************************************************)
\* C18: however the reads returned the client's bytes, the k-th iteration of
\* the loop read exactly the k-th message the client sent (FixColourMapEntries
\* apart, which is C19), and a message with a handler gave the call of its
\* own fields.
C18_OneMessagePerIteration ==
  \A k \in 1..Len(iters) :
    (k <= Len(reqs) /\ \A j \in 1..k : reqs[j][1] # 1) =>
      /\ iters[k].msg = reqs[k]
      /\ reqs[k][1] \in {0, 3, 4, 5, 6} =>
           (iters[k].to = iters[k].from + 1
              /\ RightCall(reqs[k], calls[iters[k].to]))

\* C19: when the loop comes to read the entries of a FixColourMapEntries
\* message it has read 5 bytes after the tag and its count is the u16 in the
\* 4th and 5th of them; the iteration reads 5 + 6 * count bytes after the tag
\* in all and makes no handler call.
C19_FixColourMapFraming ==
  /\ (pc = "case1_entries" /\ cur.full) =>
       (Len(cur.msg) = 6 /\ cnt = Be16(cur.msg, 5))
  /\ \A k \in 1..Len(iters) :
       (iters[k].full /\ iters[k].msg[1] = 1) =>
         /\ Len(iters[k].msg) = 6 + (6 * Be16(iters[k].msg, 5))
         /\ iters[k].to = iters[k].from
(***************************************************************************)
(* The emission calls as the wire shows them: the layouts of 4.3.          *)
(***************************************************************************)
\* the writes of the call id, in the order they are on the wire
WritesOf(id) == SelectSeq(wire, LAMBDA e : e.id = id)

\* their bytes
BytesOf(id) == Flatten([k \in 1..Len(WritesOf(id)) |-> WritesOf(id)[k].data])

\* a u16 and a u32 most significant byte first
U16OnWire(v) == <<v \div 256, v % 256>>

U32OnWire(v) == <<v \div 16777216, (v \div 65536) % 256, (v \div 256) % 256, v % 256>>

\* a rectangle of a FramebufferUpdate with the Raw encoding
RectangleOnWire(r) ==
  U16OnWire(r.X) \o U16OnWire(r.Y) \o U16OnWire(r.Width) \o U16OnWire(r.Height)
    \o <<0, 0, 0, 0>> \o r.Buffer

UpdateOnWire(rects) ==
  <<0, 0>> \o U16OnWire(Len(rects))
    \o Flatten([k \in 1..Len(rects) |-> RectangleOnWire(rects[k])])

CutTextOnWire(text) == <<3, 0, 0, 0>> \o U32OnWire(Len(text)) \o text

\* what a receiver that knows the pixel format reads as n rectangles from b
RECURSIVE ParseRectangles(_, _)
ParseRectangles(b, n) ==
  IF n = 0 \/ Len(b) < 12 THEN <<>>
  ELSE LET w == Be16(b, 5)
           h == Be16(b, 7)
           len == w * h * (server.PixelFormat.BitsPerPixel \div 8)
       IN  <<[X |-> Be16(b, 1), Y |-> Be16(b, 3), Width |-> w, Height |-> h,
              Buffer |-> SubSeq(b, 13, Min(12 + len, Len(b)))]>>
             \o ParseRectangles(SubSeq(b, 13 + len, Len(b)), n - 1)

\* what it reads from a FramebufferUpdate
ParseUpdate(b) ==
  IF Len(b) < 4 \/ b[1] # 0 THEN <<>>
  ELSE ParseRectangles(SubSeq(b, 5, Len(b)), Be16(b, 3))

\* C14: a SendRectangles that returned nil has put on the wire the tag 0, a
\* zero byte, the number of rectangles as u16 and, for each rectangle in the
\* order given, x, y, width, height as u16, the encoding 0 and the pixel
\* bytes; a receiver reads the same rectangles back from these bytes.
C14_RectanglesOnWire ==
  \A id \in 1..Len(sends) :
    (sends[id].fn = "SendRectangles" /\ sends[id].err = "nil") =>
      /\ BytesOf(id) = UpdateOnWire(sends[id].rects)
      /\ ParseUpdate(BytesOf(id)) = sends[id].rects
      /\ \A k \in 1..Len(WritesOf(id)) : WritesOf(id)[k].ok

\* the two rectangles, the second at (300, 258), were sent and nil returned
C14_Witness ==
  \E id \in 1..Len(sends) :
    /\ sends[id].fn = "SendRectangles" /\ sends[id].err = "nil"
    /\ sends[id].rects = <<Rectangles[1], Rectangles[2]>>
    /\ Len(WritesOf(id)) = 3

\* C15: a SendCutText that returned has made one write, of 8 + len(text)
\* bytes: the tag 3, three zero bytes, the length as u32 most significant
\* byte first, and the text.
C15_CutTextOnWire ==
  \A id \in 1..Len(sends) :
    (sends[id].fn = "SendCutText" /\ sends[id].err # "pending") =>
      /\ Len(WritesOf(id)) = 1
      /\ BytesOf(id) = CutTextOnWire(sends[id].text)
      /\ Len(BytesOf(id)) = 8 + Len(sends[id].text)

\* "hi" was sent and nil returned
C15_Witness ==
  \E id \in 1..Len(sends) :
    /\ sends[id].fn = "SendCutText" /\ sends[id].err = "nil"
    /\ sends[id].text = <<104, 105>>
    /\ BytesOf(id) = <<3, 0, 0, 0, 0, 0, 0, 2, 104, 105>>

\* C16: a call has returned an error exactly when one of its writes has
\* failed; the failed write is its last write; a call that returned nil has
\* made all its writes (one for SendCutText, one and one for each rectangle
\* for SendRectangles) and none failed.
C16_ErrorOnFirstFailure ==
  \A id \in 1..Len(sends) :
    LET ws == WritesOf(id) IN
    /\ sends[id].err = "error" <=> \E k \in 1..Len(ws) : ~ws[k].ok
    /\ \A k \in 1..Len(ws) : ~ws[k].ok => k = Len(ws)
    /\ sends[id].err = "nil" =>
         Len(ws) = (IF sends[id].fn = "SendRectangles"
                    THEN 1 + Len(sends[id].rects) ELSE 1)

\* SendRectangles of two rectangles returned an error after the write of the
\* first rectangle failed: the second was not written
C16_Witness ==
  \E id \in 1..Len(sends) :
    /\ sends[id].fn = "SendRectangles" /\ sends[id].err = "error"
    /\ Len(sends[id].rects) = 2
    /\ Len(WritesOf(id)) = 2 /\ WritesOf(id)[1].ok /\ ~WritesOf(id)[2].ok
    /\ \A t \in Tasks : senders[t].pc = "idle"

\* the tasks that have made emission calls
TasksCalling == {sends[id].task : id \in 1..Len(sends)}

\* the message of the call id
MessageOf(id) ==
  IF sends[id].fn = "SendCutText" THEN CutTextOnWire(sends[id].text)
  ELSE UpdateOnWire(sends[id].rects)

\* the writes of the call id are next to each other on the wire and their
\* bytes are the message, as far as it is written
Contiguous(id) ==
  /\ \A i, k \in 1..Len(wire) :
       (i <= k /\ wire[i].id = id /\ wire[k].id = id) =>
         \A j \in i..k : wire[j].id = id
  /\ Len(BytesOf(id)) <= Len(MessageOf(id))
  /\ BytesOf(id) = SubSeq(MessageOf(id), 1, Len(BytesOf(id)))

\* C20: when all the emission calls of the connection were made by one task,
\* the bytes of every message are contiguous on the wire (the interleaving
\* of two tasks is the state of C20_Interleaved).
C20_OneTaskContiguous ==
  Cardinality(TasksCalling) <= 1 => \A id \in 1..Len(sends) : Contiguous(id)

\* two tasks: the cut text of one is on the wire between the header and the
\* rectangle of the FramebufferUpdate of the other
C20_Interleaved ==
  /\ Len(wire) = 3 /\ Len(sends) = 2
  /\ wire[1].id = 1 /\ wire[2].id = 2 /\ wire[3].id = 1
  /\ sends[1].fn = "SendRectangles" /\ Len(sends[1].rects) = 1
  /\ sends[2].fn = "SendCutText"
  /\ sends[1].task # sends[2].task
  /\ \A k \in 1..3 : wire[k].ok
  /\ ~Contiguous(1)
(***************************************************************************)
(* SetUintN and GetUintN.                                                  *)
(***************************************************************************)
\* the n/8 bytes of an n-bit value, most significant first
BigEndian(n, v) ==
  CASE n = 16 -> U16OnWire(v)
    [] n = 32 -> U16OnWire(v.hi) \o U16OnWire(v.lo)
    [] n = 64 -> U16OnWire(v.hi.hi) \o U16OnWire(v.hi.lo) \o U16OnWire(v.lo.hi)
                   \o U16OnWire(v.lo.lo)

\* C21: after SetUintN(buf, pos, v) on a buffer that has n/8 bytes at pos,
\* the n/8 bytes at pos are v most significant byte first, every other byte
\* of the buffer is what it was, and GetUintN(buf, pos) returns v; pos = 0 is
\* the case of the round trip.
C21_RoundTrip ==
  (codec.pc \in {"get", "done"} /\ codec.pos + (codec.n \div 8) <= Len(codec.before)) =>
    /\ Len(codec.buf) = Len(codec.before)
    /\ SubSeq(codec.buf, codec.pos + 1, codec.pos + (codec.n \div 8))
         = BigEndian(codec.n, codec.val)
    /\ \A j \in 1..Len(codec.buf) :
         (j <= codec.pos \/ j > codec.pos + (codec.n \div 8)) =>
           codec.buf[j] = codec.before[j]
    /\ codec.pc = "done" => codec.got = codec.val

\* 0102 0304 0506 0708 was stored at 0 in a buffer of 12 bytes and read back
C21_Witness ==
  /\ codec.pc = "done" /\ codec.n = 64 /\ codec.pos = 0
  /\ Len(codec.before) = 12
  /\ codec.val = [hi |-> [hi |-> 258, lo |-> 772], lo |-> [hi |-> 1286, lo |-> 1800]]
  /\ SubSeq(codec.buf, 1, 8) = <<1, 2, 3, 4, 5, 6, 7, 8>>
  /\ codec.got = codec.val
=============================================================================
